---------------------------- MODULE Spec2Model ----------------------------
(***************************************************************************)
(* Model of zcash/src/private_key.rs: the Zcash private key record, its    *)
(* Wallet Import Format (WIF) encoding and decoding, and its construction  *)
(* paths (new / default, from_secret_key, from_wif / from_str, Display).   *)
(*                                                                         *)
(* Bytes are integers 0..255, byte strings are sequences of bytes, a text  *)
(* is a sequence of one-character strings.  Rust's 0-based half-open slice *)
(* data[a..b] is SubSeq(data, a + 1, b).                                    *)
(***************************************************************************)
EXTENDS Integers, Sequences, FiniteSets, TLC

(***************************************************************************)
(* Bounds of the model (inputs that are enumerated).                       *)
(***************************************************************************)
\* scalars of value 1 .. MaxSmallScalar are among the supplied / drawn scalars
MaxSmallScalar == 1
\* raw inputs carry 0 .. MaxTail bytes between the 32 key bytes and the checksum
MaxTail == 2

(***************************************************************************)
(* Program constants.                                                      *)
(***************************************************************************)
\* let mut wif = [0u8; 38]
WIF_BUFFER_LEN == 38
\* let mut random = [0u8; 32]
SECRET_KEY_SIZE == 32
\* wif[33] = 0x01
COMPRESSED_FLAG == 1
\* secret_key.len() == 65
COMPRESSED_LEN_TEST == 65
\* &checksum(..)[0..4]
CHECKSUM_LEN == 4

Zeros(n) == [i \in 1..n |-> 0]

(***************************************************************************)
(* base58 (crate base58: ToBase58 / FromBase58).  Big-endian base          *)
(* conversion; each leading zero byte is one leading '1'.                  *)
(***************************************************************************)
ALPHABET ==
    << "1","2","3","4","5","6","7","8","9",
       "A","B","C","D","E","F","G","H","J","K","L","M","N","P","Q","R","S","T",
       "U","V","W","X","Y","Z",
       "a","b","c","d","e","f","g","h","i","j","k","m","n","o","p","q","r","s",
       "t","u","v","w","x","y","z" >>

AlphabetChars == {ALPHABET[i] : i \in 1..Len(ALPHABET)}

DigitOf(c) == (CHOOSE i \in 1..Len(ALPHABET) : ALPHABET[i] = c) - 1

RECURSIVE LeadingCount(_, _)
\* number of leading elements of s equal to x
LeadingCount(s, x) ==
    IF s = <<>> \/ s[1] # x THEN 0 ELSE 1 + LeadingCount(Tail(s), x)

RECURSIVE MulAddSeg(_, _, _, _)
\* seg is a run of digits (base `base`, big-endian) of a number; the result
\* is the run's digits in the number times mul plus carry, and the carry out
\* of the run (the run is split in halves, the low half first)
MulAddSeg(seg, mul, carry, base) ==
    IF seg = <<>> THEN [carry |-> carry, digits |-> <<>>]
    ELSE IF Len(seg) = 1
    THEN LET t == seg[1] * mul + carry
         IN  [carry |-> t \div base, digits |-> <<t % base>>]
    ELSE LET h  == Len(seg) \div 2
             lo == MulAddSeg(SubSeq(seg, h + 1, Len(seg)), mul, carry, base)
             c  == lo.carry
             hi == MulAddSeg(SubSeq(seg, 1, h), mul, c, base)
         IN  \* (the test makes the evaluation of the low half precede its use)
             IF c >= 0
             THEN [carry |-> hi.carry, digits |-> hi.digits \o lo.digits]
             ELSE [carry |-> 0, digits |-> <<>>]

\* num is a big-endian number in base `base` without leading zero digits;
\* the result is num * mul + carry in the same representation
\* (mul <= 256 and base >= 58: the last carry has at most two digits)
MulAdd(num, mul, carry, base) ==
    LET r == MulAddSeg(num, mul, carry, base)
        c == r.carry
    IN  (IF c = 0 THEN <<>>
         ELSE IF c < base THEN <<c>>
         ELSE <<c \div base, c % base>>) \o r.digits

RECURSIVE Convert(_, _, _, _)
\* the number acc (base `to`) with the digits (base `from`, big-endian)
\* appended to it, one digit after the other
Convert(digits, acc, from, to) ==
    IF digits = <<>> THEN acc
    ELSE IF Len(digits) = 1 THEN MulAdd(acc, from, digits[1], to)
    ELSE LET h    == Len(digits) \div 2
             high == Convert(SubSeq(digits, 1, h), acc, from, to)
         IN  \* (the test makes the evaluation of high precede its use)
             IF Len(high) >= 0
             THEN Convert(SubSeq(digits, h + 1, Len(digits)), high, from, to)
             ELSE <<>>

\* [u8]::to_base58
To_base58(bytes) ==
    LET zcount == LeadingCount(bytes, 0)
        rest   == SubSeq(bytes, zcount + 1, Len(bytes))
        digits == Convert(rest, <<>>, 256, 58)
    IN  [i \in 1..zcount |-> "1"] \o [i \in 1..Len(digits) |-> ALPHABET[digits[i] + 1]]

\* str::from_base58: Err on a character outside the alphabet
From_base58(text) ==
    IF \E i \in 1..Len(text) : text[i] \notin AlphabetChars
    THEN [ok |-> FALSE, bytes |-> <<>>]
    ELSE LET zcount == LeadingCount(text, "1")
             rest   == SubSeq(text, zcount + 1, Len(text))
             digits == [i \in 1..Len(rest) |-> DigitOf(rest[i])]
         IN  [ok |-> TRUE, bytes |-> Zeros(zcount) \o Convert(digits, <<>>, 58, 256)]

(***************************************************************************)
(* model::crypto::checksum: a 32-byte digest of a byte string, the double  *)
(* application of a hash.  The hash is abstract: a deterministic mixing    *)
(* function of the length and of every byte.                               *)
(***************************************************************************)
RECURSIVE Mix(_, _)
Mix(bytes, h) ==
    IF bytes = <<>> THEN h
    ELSE Mix(Tail(bytes), (h * 33 + bytes[1] + 7) % 65521)

Hash(bytes) ==
    LET h == Mix(bytes, Len(bytes) + 1)
    IN  [k \in 1..32 |-> ((h + k) * ((h % 251) + k) + (h \div 256)) % 256]

checksum(bytes) == Hash(Hash(bytes))

(***************************************************************************)
(* network::Network and its WIF prefix table.                              *)
(***************************************************************************)
Networks == {"Mainnet", "Testnet"}

Network_to_wif_prefix(network) == IF network = "Mainnet" THEN 128 ELSE 239

Network_from_wif_prefix(prefix) ==
    IF prefix = 128 THEN [ok |-> TRUE, network |-> "Mainnet"]
    ELSE IF prefix = 239 THEN [ok |-> TRUE, network |-> "Testnet"]
    ELSE [ok |-> FALSE, network |-> "None"]

(***************************************************************************)
(* secp256k1::SecretKey: 32 bytes b with 0 < b < curve order.              *)
(***************************************************************************)
CURVE_ORDER ==
    << 255,255,255,255, 255,255,255,255, 255,255,255,255, 255,255,255,254,
       186,174,220,230, 175, 72,160, 59, 191,210, 94,140, 208, 54, 65, 65 >>

RECURSIVE BytesLess(_, _)
\* a < b for big-endian byte strings of equal length
BytesLess(a, b) ==
    IF a = <<>> THEN FALSE
    ELSE IF a[1] # b[1] THEN a[1] < b[1]
    ELSE BytesLess(Tail(a), Tail(b))

\* SecretKey::from_slice(..).is_ok()
SecretKey_from_slice_ok(data) ==
    /\ Len(data) = SECRET_KEY_SIZE
    /\ data # Zeros(SECRET_KEY_SIZE)
    /\ BytesLess(data, CURVE_ORDER)

\* SecretKey::len(): the length of the key's byte array
SecretKey_len(secret_key) == Len(secret_key)

(***************************************************************************)
(* ZcashPrivateKey and the values its functions return.                   *)
(***************************************************************************)
\* the absence of a key (no value was returned)
NoKey == [secret_key |-> <<>>, wif |-> <<>>, network |-> "None", compressed |-> FALSE]

Key(secret_key, wif, network, compressed) ==
    [secret_key |-> secret_key, wif |-> wif, network |-> network,
     compressed |-> compressed]

\* Ok(key), Err(msg), or a panic (the thread unwinds, nothing is returned)
Ok(key)    == [kind |-> "Ok", key |-> key, msg |-> ""]
Err(msg)   == [kind |-> "Err", key |-> NoKey, msg |-> msg]
Panic(msg) == [kind |-> "Panic", key |-> NoKey, msg |-> msg]
NoResult   == [kind |-> "None", key |-> NoKey, msg |-> ""]

\* wif_bytes with the compressed checksum taken over wif[0..33], the flag
\* byte left out
wif_bytes_stale_checksum(secret_key, network, compressed) ==
    LET wif0 == [i \in 1..WIF_BUFFER_LEN |->
                    IF i = 1 THEN Network_to_wif_prefix(network)
                    ELSE IF i <= 1 + SECRET_KEY_SIZE THEN secret_key[i - 1]
                    ELSE 0]
        sum  == SubSeq(checksum(SubSeq(wif0, 1, 33)), 1, CHECKSUM_LEN)
    IN  IF compressed
        THEN SubSeq(wif0, 1, 33) \o <<COMPRESSED_FLAG>> \o sum
        ELSE SubSeq(wif0, 1, 33) \o sum

\* wif_bytes with the whole 38-byte buffer encoded in the uncompressed case
wif_bytes_unsliced(secret_key, network, compressed) ==
    LET wif0 == [i \in 1..WIF_BUFFER_LEN |->
                    IF i = 1 THEN Network_to_wif_prefix(network)
                    ELSE IF i <= 1 + SECRET_KEY_SIZE THEN secret_key[i - 1]
                    ELSE 0]
    IN  IF compressed
        THEN LET wif1 == [wif0 EXCEPT ![34] = COMPRESSED_FLAG]
                 sum  == SubSeq(checksum(SubSeq(wif1, 1, 34)), 1, CHECKSUM_LEN)
             IN  SubSeq(wif1, 1, 34) \o sum
        ELSE LET sum  == SubSeq(checksum(SubSeq(wif0, 1, 33)), 1, CHECKSUM_LEN)
             IN  SubSeq(wif0, 1, 33) \o sum \o <<0>>

\* the bytes secret_key_to_wif hands to to_base58
wif_bytes(secret_key, network, compressed) ==
    LET wif0 == [i \in 1..WIF_BUFFER_LEN |->
                    IF i = 1 THEN Network_to_wif_prefix(network)
                    ELSE IF i <= 1 + SECRET_KEY_SIZE THEN secret_key[i - 1]
                    ELSE 0]
    IN  IF compressed
        THEN LET wif1 == [wif0 EXCEPT ![34] = COMPRESSED_FLAG]
                 sum  == SubSeq(checksum(SubSeq(wif1, 1, 34)), 1, CHECKSUM_LEN)
             IN  SubSeq(wif1, 1, 34) \o sum
        ELSE LET sum  == SubSeq(checksum(SubSeq(wif0, 1, 33)), 1, CHECKSUM_LEN)
                 wif1 == [i \in 1..WIF_BUFFER_LEN |->
                             IF i \in 34..37 THEN sum[i - 33] ELSE wif0[i]]
             IN  SubSeq(wif1, 1, 37)

\* fn secret_key_to_wif(secret_key, network, compressed) -> String
secret_key_to_wif(secret_key, network, compressed) ==
    To_base58(wif_bytes(secret_key, network, compressed))

\* pub fn from_secret_key(secret_key, network) -> Self
from_secret_key(secret_key, network) ==
    LET compressed == (SecretKey_len(secret_key) = COMPRESSED_LEN_TEST)
        wif        == secret_key_to_wif(secret_key, network, compressed)
    IN  Key(secret_key, wif, network, compressed)

\* from_wif comparing three of the four checksum bytes
from_wif_short_compare(wif) ==
    LET decoded == From_base58(wif)
        data    == decoded.bytes
        len     == Len(data)
    IN  IF ~decoded.ok THEN Panic("Error decoding base58 wif")
        ELSE IF len < CHECKSUM_LEN THEN Panic("data[len - 4..]")
        ELSE LET expected == SubSeq(SubSeq(data, len - 3, len), 1, CHECKSUM_LEN - 1)
                 sum      == SubSeq(checksum(SubSeq(data, 1, len - 4)), 1, CHECKSUM_LEN - 1)
             IN  IF expected # sum THEN Err("Invalid wif")
                 ELSE LET network == Network_from_wif_prefix(data[1])
                      IN  IF ~network.ok THEN Err("from_wif_prefix")
                          ELSE IF len < 33 THEN Panic("data[1..33]")
                          ELSE IF ~SecretKey_from_slice_ok(SubSeq(data, 2, 33))
                          THEN Panic("Error creating secret key from slice")
                          ELSE Ok(Key(SubSeq(data, 2, 33), wif, network.network,
                                      len = WIF_BUFFER_LEN))

\* pub fn from_wif(wif: &str) -> Result<Self, &'static str>
from_wif(wif) ==
    LET decoded == From_base58(wif)
        data    == decoded.bytes
        len     == Len(data)
    IN  IF ~decoded.ok THEN Panic("Error decoding base58 wif")
        ELSE IF len < CHECKSUM_LEN THEN Panic("data[len - 4..]")
        ELSE LET expected == SubSeq(SubSeq(data, len - 3, len), 1, CHECKSUM_LEN)
                 sum      == SubSeq(checksum(SubSeq(data, 1, len - 4)), 1, CHECKSUM_LEN)
             IN  IF expected # sum THEN Err("Invalid wif")
                 ELSE LET network == Network_from_wif_prefix(data[1])
                      IN  IF ~network.ok THEN Err("from_wif_prefix")
                          ELSE IF len < 33 THEN Panic("data[1..33]")
                          ELSE IF ~SecretKey_from_slice_ok(SubSeq(data, 2, 33))
                          THEN Panic("Error creating secret key from slice")
                          ELSE Ok(Key(SubSeq(data, 2, 33), wif, network.network,
                                      len = WIF_BUFFER_LEN))

\* the operating system's random source: it fails, or fills the 32 bytes
RngErr == [ok |-> FALSE, bytes |-> <<>>]
RngOk(bytes) == [ok |-> TRUE, bytes |-> bytes]

\* fn random_secret_key() -> SecretKey, given what OsRng.try_fill did
random_secret_key(rng) ==
    IF ~rng.ok THEN Panic("Error generating random bytes for private key")
    ELSE IF ~SecretKey_from_slice_ok(rng.bytes)
    THEN Panic("Error creating secret key from byte slice")
    ELSE Ok(Key(rng.bytes, <<>>, "None", FALSE))

\* fn build(network, compressed) -> Self, given what OsRng.try_fill did
build(rng, network, compressed) ==
    LET drawn == random_secret_key(rng)
    IN  IF drawn.kind # "Ok" THEN drawn
        ELSE LET secret_key == drawn.key.secret_key
                 wif == secret_key_to_wif(secret_key, network, compressed)
             IN  Ok(Key(secret_key, wif, network, compressed))

\* new building an uncompressed key
new_uncompressed(rng, network) == build(rng, network, FALSE)

\* fn new(network) -> Self
new(rng, network) == build(rng, network, TRUE)

\* Display encoding the key anew instead of writing the stored wif
fmt_recomputed(key) ==
    secret_key_to_wif(key.secret_key, key.network, key.compressed)

\* impl Display: write!(f, "{}", self.wif)
fmt(key) == key.wif

(***************************************************************************)
(* The inputs the operations are applied to.                               *)
(***************************************************************************)
SmallScalar(k) == Zeros(SECRET_KEY_SIZE - 1) \o <<k>>

\* 0C28FCA386C7A227600B2FE50B7CAE11EC86D3BF1FBE471BE89827E19D72AA1D
TestKey ==
    <<  12, 40,252,163, 134,199,162, 39,  96, 11, 47,229,  11,124,174, 17,
       236,134,211,191,  31,190, 71, 27, 232,152, 39,225, 157,114,170, 29 >>

OrderMinusOne == [CURVE_ORDER EXCEPT ![SECRET_KEY_SIZE] = @ - 1]

\* what a secp256k1::SecretKey can hold
LegalScalars ==
    {SmallScalar(k) : k \in 1..MaxSmallScalar} \cup {TestKey, OrderMinusOne}

\* 32 bytes that are no secret key
IllegalScalars == {Zeros(SECRET_KEY_SIZE), CURVE_ORDER}

RngOutcomes == {RngErr} \cup {RngOk(b) : b \in LegalScalars \cup IllegalScalars}

\* the raw bytes behind the texts given to from_wif: a version byte, a key
\* field (a scalar, legal or not, or fewer than 32 bytes), 0..MaxTail further
\* bytes, and four last bytes that are the checksum or a damaged checksum
Prefixes  == {Network_to_wif_prefix(n) : n \in Networks} \cup {0}
KeyFields == LegalScalars \cup IllegalScalars \cup {<<>>, SubSeq(TestKey, 1, 31)}
Tails     == {[i \in 1..k |-> b] : k \in 0..MaxTail, b \in {1, 2}}
Payloads  == {<<p>> \o f \o t : p \in Prefixes, f \in KeyFields, t \in Tails}
                \cup {<<>>}

Sealed(payload) == payload \o SubSeq(checksum(payload), 1, CHECKSUM_LEN)

\* raw with the k-th of its last four bytes inverted
Damaged(raw, k) == [raw EXCEPT ![Len(raw) - CHECKSUM_LEN + k] = 255 - @]

RawInputs ==
    {Sealed(p) : p \in Payloads}
        \cup {Damaged(Sealed(p), k) : p \in Payloads, k \in {1, CHECKSUM_LEN}}
        \cup {<<>>, <<128>>, <<128, 1, 2>>}

\* texts with a character outside the base58 alphabet
BadTexts ==
    LET a == secret_key_to_wif(TestKey, "Mainnet", FALSE)
        b == secret_key_to_wif(TestKey, "Testnet", TRUE)
    IN  {[a EXCEPT ![1] = "0"], [b EXCEPT ![Len(b)] = "l"], <<"I">>}

WifInputs == {To_base58(raw) : raw \in RawInputs} \cup BadTexts

\* from_wif on each input text (from_wif is a pure function)
FromWifTable == [wif \in WifInputs |-> from_wif(wif)]

(***************************************************************************)
(* The state follows one key value: the constructor call that makes it,   *)
(* what the call was given and what it returned, and what is then done     *)
(* with the key (from_wif of its own wif, Display).  The constructors are  *)
(* pure functions of their arguments, so a later call would start where    *)
(* the first does: a behaviour holds one constructor call.                 *)
(***************************************************************************)
VARIABLES op, arg, result, private_key, reparsed, shown

vars == <<op, arg, result, private_key, reparsed, shown>>

NoArg == [wif |-> <<>>, secret_key |-> <<>>, network |-> "None",
          compressed |-> FALSE, rng |-> RngErr]

Init ==
    /\ op = "init"
    /\ arg = NoArg
    /\ result = NoResult
    /\ private_key = NoKey
    /\ reparsed = NoResult
    /\ shown = <<>>

\* a panic ends the program
Running == result.kind # "Panic" /\ reparsed.kind # "Panic"

Return(name, given, r) ==
    /\ op = "init"
    /\ op' = name
    /\ arg' = given
    /\ result' = r
    /\ private_key' = r.key
    /\ reparsed' = NoResult
    /\ shown' = <<>>

\* ZcashPrivateKey::new(&network)
New ==
    /\ Running
    /\ \E network \in Networks, rng \in RngOutcomes :
          Return("new", [NoArg EXCEPT !.network = network, !.rng = rng],
                 new(rng, network))

\* ZcashPrivateKey::default()
Default ==
    /\ Running
    /\ \E rng \in RngOutcomes :
          Return("default", [NoArg EXCEPT !.network = "Mainnet", !.rng = rng],
                 new(rng, "Mainnet"))

\* ZcashPrivateKey::from_secret_key(secret_key, &network), by a caller that
\* wants the key serialized compressed or not (arg.compressed)
FromSecretKey ==
    /\ Running
    /\ \E secret_key \in LegalScalars, network \in Networks, wanted \in BOOLEAN :
          Return("from_secret_key",
                 [NoArg EXCEPT !.secret_key = secret_key, !.network = network,
                               !.compressed = wanted],
                 Ok(from_secret_key(secret_key, network)))

\* ZcashPrivateKey::from_wif(wif)
FromWif ==
    /\ Running
    /\ \E wif \in WifInputs :
          Return("from_wif", [NoArg EXCEPT !.wif = wif], FromWifTable[wif])

\* wif.parse::<ZcashPrivateKey>(), i.e. from_str
FromStr ==
    /\ Running
    /\ \E wif \in WifInputs :
          Return("from_str", [NoArg EXCEPT !.wif = wif], FromWifTable[wif])

\* tests::test_new: from_wif of the key's own wif
TestNew ==
    /\ Running
    /\ private_key # NoKey
    /\ reparsed' = from_wif(private_key.wif)
    /\ UNCHANGED <<op, arg, result, private_key, shown>>

\* private_key.to_string()
Fmt ==
    /\ Running
    /\ private_key # NoKey
    /\ shown' = fmt(private_key)
    /\ UNCHANGED <<op, arg, result, private_key, reparsed>>

Next == New \/ Default \/ FromSecretKey \/ FromWif \/ FromStr \/ TestNew \/ Fmt

Spec == Init /\ [][Next]_vars

(***************************************************************************)
(* Properties.                                                             *)
(***************************************************************************)
Constructed == op \in {"new", "default", "from_secret_key"} /\ result.kind = "Ok"
Generated   == op \in {"new", "default"}
Parsed      == op \in {"from_wif", "from_str"}

\* the raw bytes of the text given to from_wif / from_str
Decodes == From_base58(arg.wif).ok
Data    == From_base58(arg.wif).bytes
GivenChecksum == SubSeq(Data, Len(Data) - CHECKSUM_LEN + 1, Len(Data))
PayloadChecksum ==
    SubSeq(checksum(SubSeq(Data, 1, Len(Data) - CHECKSUM_LEN)), 1, CHECKSUM_LEN)

\* C1: round trip.  A key made from a legal scalar s, a network n and a flag
\* c carries wif = secret_key_to_wif(s, n, c); from_wif of that text succeeds
\* and yields exactly s, n and c.
C1_RoundTrip ==
    (Constructed /\ reparsed.kind # "None") =>
        /\ private_key.wif = secret_key_to_wif(private_key.secret_key,
                                private_key.network, private_key.compressed)
        /\ reparsed.kind = "Ok"
        /\ reparsed.key.secret_key = private_key.secret_key
        /\ reparsed.key.network = private_key.network
        /\ reparsed.key.compressed = private_key.compressed

\* a compressed Testnet key drawn by new (the largest legal scalar), reparsed
C1_Witness ==
    /\ op = "new"
    /\ private_key.network = "Testnet"
    /\ private_key.compressed
    /\ private_key.secret_key = OrderMinusOne
    /\ reparsed.kind = "Ok"

\* C2: from_wif / from_str end, for every text, in a key or in an error
\* value returned to the caller, never in an abrupt termination.
C2_NoAbruptTermination ==
    Parsed => result.kind \in {"Ok", "Err"}

\* C3: from_wif accepts a text only if its raw bytes have length 37 or 38.
C3_LengthChecked ==
    (Parsed /\ result.kind = "Ok") => Len(Data) \in {37, 38}

\* C4: checksum integrity.  from_wif returns a key only when the last four
\* raw bytes are the first four bytes of the checksum of the bytes before
\* them; when they differ it returns the error "Invalid wif" and no key,
\* whatever the prefix byte and the scalar bytes are.
C4_ChecksumIntegrity ==
    Parsed =>
        /\ result.kind = "Ok" =>
              /\ Decodes
              /\ Len(Data) >= CHECKSUM_LEN
              /\ GivenChecksum = PayloadChecksum
        /\ (Decodes /\ Len(Data) >= CHECKSUM_LEN /\ GivenChecksum # PayloadChecksum) =>
              /\ result = Err("Invalid wif")
              /\ private_key = NoKey

\* a 37-byte raw with an unknown prefix, an illegal scalar and a damaged
\* last byte is refused for its checksum
C4_Witness ==
    /\ op = "from_wif"
    /\ Decodes
    /\ Len(Data) = 37
    /\ Data[1] = 0
    /\ SubSeq(Data, 2, 33) = CURVE_ORDER
    /\ SubSeq(GivenChecksum, 1, 3) = SubSeq(PayloadChecksum, 1, 3)
    /\ GivenChecksum # PayloadChecksum
    /\ result = Err("Invalid wif")

\* C5: canonical text.  Every text from_wif accepts, with result (s, n, c),
\* is the text secret_key_to_wif(s, n, c).
C5_CanonicalText ==
    (Parsed /\ result.kind = "Ok") =>
        secret_key_to_wif(private_key.secret_key, private_key.network,
                          private_key.compressed) = arg.wif

\* C6: from_secret_key records the scalar, the network and the compressed
\* flag its caller asks for, and the wif that encodes the three.
C6_RecordsRequestedFlag ==
    op = "from_secret_key" =>
        /\ private_key.secret_key = arg.secret_key
        /\ private_key.network = arg.network
        /\ private_key.compressed = arg.compressed
        /\ private_key.wif = secret_key_to_wif(arg.secret_key, arg.network,
                                               arg.compressed)

\* C7: record invariant.  Every key returned by new / default,
\* from_secret_key or from_wif / from_str decodes, from its own wif, to its
\* own scalar, network and flag; Display returns the stored wif and
\* changes no field.
C7_RecordInvariant ==
    /\ [](private_key # NoKey => from_wif(private_key.wif) = Ok(private_key))
    /\ [][Fmt => (shown' = private_key.wif /\ private_key' = private_key)]_vars

\* a key parsed from a 39-byte raw, displayed
C7_Witness ==
    /\ op = "from_str"
    /\ result.kind = "Ok"
    /\ Len(Data) = 39
    /\ shown = private_key.wif

\* C8: new(network), and default with Mainnet, when it returns, returns a
\* key of that network with compressed = true whose wif is the encoding of
\* the 38 bytes (prefix, scalar, 0x01, checksum); from_wif of that wif
\* succeeds and gives back the same wif.
C8_NewIsCompressed ==
    (Generated /\ result.kind = "Ok") =>
        LET raw == From_base58(private_key.wif)
            again == from_wif(private_key.wif)
        IN  /\ op = "default" => arg.network = "Mainnet"
            /\ private_key.network = arg.network
            /\ private_key.secret_key = arg.rng.bytes
            /\ private_key.compressed
            /\ raw.ok
            /\ Len(raw.bytes) = 38
            /\ raw.bytes[1] = Network_to_wif_prefix(arg.network)
            /\ SubSeq(raw.bytes, 2, 33) = private_key.secret_key
            /\ raw.bytes[34] = 1
            /\ SubSeq(raw.bytes, 35, 38) = SubSeq(checksum(SubSeq(raw.bytes, 1, 34)), 1, 4)
            /\ again.kind = "Ok"
            /\ again.key.wif = private_key.wif

C8_Witness ==
    /\ op = "default"
    /\ result.kind = "Ok"
    /\ private_key.network = "Mainnet"
    /\ private_key.secret_key = TestKey
    /\ private_key.wif[1] \in {"K", "L"}

\* C9: length invariant of the encoding.  The bytes secret_key_to_wif gives
\* to to_base58 are 37 when compressed is false and 38 when it is true: the
\* prefix, the 32 scalar bytes, 0x01 at index 33 only when compressed, and
\* the first four checksum bytes of everything before them.
C9_EncodedLength ==
    Constructed =>
        LET c   == private_key.compressed
            raw == wif_bytes(private_key.secret_key, private_key.network, c)
            n   == Len(raw)
        IN  /\ private_key.wif = To_base58(raw)
            /\ n = (IF c THEN 38 ELSE 37)
            /\ raw[1] = Network_to_wif_prefix(private_key.network)
            /\ SubSeq(raw, 2, 33) = private_key.secret_key
            /\ c => raw[34] = 1
            /\ SubSeq(raw, n - 3, n) = SubSeq(checksum(SubSeq(raw, 1, n - 4)), 1, 4)
            /\ From_base58(private_key.wif) = [ok |-> TRUE, bytes |-> raw]

\* an uncompressed key (37 bytes) made from a supplied scalar
C9_Witness ==
    /\ op = "from_secret_key"
    /\ ~private_key.compressed
    /\ private_key.secret_key = SmallScalar(1)
    /\ Len(From_base58(private_key.wif).bytes) = 37

\* C10: generation ends in a defined outcome, a key or a reported error; a
\* draw that is no legal scalar and a failing random source do not crash.
C10_GenerationDefined ==
    Generated => result.kind \in {"Ok", "Err"}

=============================================================================
